---- MODULE Spec2Model ----
(***************************************************************************)
(* A model of s3-object-streams: the sequential and the concurrent S3      *)
(* listing streams (lib/stream/s3ListObjectStream.js,                      *)
(* lib/stream/s3ConcurrentListObjectStream.js) and the usage aggregation   *)
(* stream (lib/stream/s3UsageStream.js).                                   *)
(*                                                                         *)
(* Strings (keys, prefixes, markers, paths) are sequences of character     *)
(* codes so that the lexicographic order S3 and lodash rely on is part of  *)
(* the model.  The empty sequence stands for undefined / the empty string, *)
(* both of which the code treats as "no marker" and "no prefix".           *)
(***************************************************************************)
EXTENDS Integers, Sequences, FiniteSets, TLC

\* ------------------------------------------------------------------------
\* Bounds of the model.
\* ------------------------------------------------------------------------

\* Largest number of objects in the bucket that is listed.
MaxObjects == 3

\* Largest explicit options.maxConcurrency that is tried.
MaxConcurrencyTried == 2

\* Largest explicit options.maxKeys that is tried.
MaxKeysTried == 2

\* Largest options.depth of a usage stream that is tried.
MaxDepth == 2

\* Largest explicit options.outputFactor that is tried.
MaxOutputFactor == 2

\* Largest highWaterMark of the usage stream's readable side that is tried.
MaxHighWaterMark == 2

\* Largest number of chunks written to a usage stream.
MaxWrites == 3

\* Largest number of requests of one run that the S3 client answers with an
\* error.
MaxFailedAttempts == 6

\* ------------------------------------------------------------------------
\* Program constants.
\* ------------------------------------------------------------------------

\* The character '/', the default delimiter.
Slash == 1

\* The letters keys are built from, a, b and c; all sort after '/'.
Letters == {2, 3, 4}

\* async.retry(3, ...): the number of attempts made for one page.
retryTimes == 3

\* options.maxConcurrency || 10
defaultMaxConcurrency == 10

\* options.maxKeys || 1000
defaultMaxKeys == 1000

\* options.outputFactor || 100
defaultOutputFactor == 100

\* constants.storageClass
storageClass == {"STANDARD", "STANDARD_IA", "REDUCED_REDUNDANCY", "GLACIER"}

\* The absent value of an optional string (undefined, or '').
Undefined == <<>>

\* The absent value of an optional number or character.
Unset == 0

\* The error argument of a callback that reports success.
NoError == {}

\* ------------------------------------------------------------------------
\* Strings.
\* ------------------------------------------------------------------------

\* s < t for JavaScript strings: code unit by code unit, a proper prefix
\* sorting first.
RECURSIVE LexLess(_, _)
LexLess(s, t) ==
  IF t = <<>> THEN FALSE
  ELSE IF s = <<>> THEN TRUE
  ELSE IF Head(s) < Head(t) THEN TRUE
  ELSE IF Head(s) > Head(t) THEN FALSE
  ELSE LexLess(Tail(s), Tail(t))

StartsWith(s, p) ==
  /\ Len(p) <= Len(s)
  /\ SubSeq(s, 1, Len(p)) = p

\* The index of the first occurrence of character c in s at or after
\* position from, or 0 when there is none.
RECURSIVE IndexOf(_, _, _)
IndexOf(s, c, from) ==
  IF from > Len(s) THEN 0
  ELSE IF s[from] = c THEN from
  ELSE IndexOf(s, c, from + 1)

\* The strings of a set, in ascending order.
RECURSIVE SortedSeq(_)
SortedSeq(S) ==
  IF S = {} THEN <<>>
  ELSE LET least == CHOOSE x \in S : \A y \in S \ {x} : LexLess(x, y)
       IN  <<least>> \o SortedSeq(S \ {least})

\* The elements of a sequence.
Range(s) == {s[i] : i \in 1..Len(s)}

\* ------------------------------------------------------------------------
\* The remote service: S3 listObjects.
\* ------------------------------------------------------------------------

\* The keys a bucket may hold: a, b, a/a, a/b, b/a, c/a, a/a/a, a/b/a.
Universe ==
  { <<2>>, <<3>>,
    <<2, Slash, 2>>, <<2, Slash, 3>>, <<3, Slash, 2>>, <<4, Slash, 2>>,
    <<2, Slash, 2, Slash, 2>>, <<2, Slash, 3, Slash, 2>> }

Buckets == {S \in SUBSET Universe : Cardinality(S) <= MaxObjects}

\* The name under which a key is listed for a prefix and a delimiter: the key
\* itself, or the common prefix it is rolled up into when the rest of the key
\* after the prefix contains the delimiter.
ListedName(key, prefix, delimiter) ==
  LET at == IF delimiter = Unset THEN 0
            ELSE IndexOf(key, delimiter, Len(prefix) + 1)
  IN  IF at = 0 THEN key ELSE SubSeq(key, 1, at)

IsCommonPrefix(name, prefix, delimiter) ==
  /\ delimiter # Unset
  /\ Len(name) > Len(prefix)
  /\ name[Len(name)] = delimiter

\* The response of listObjects for the parameters Bucket (its contents),
\* Prefix, Delimiter, Marker and MaxKeys.  Keys and common prefixes are
\* returned in ascending order, strictly after the marker, at most MaxKeys of
\* them; NextMarker is only returned for a truncated delimiter listing.
S3ListObjects(contents, params) ==
  LET names  == { ListedName(k, params.Prefix, params.Delimiter) :
                    k \in {x \in contents : StartsWith(x, params.Prefix)} }
      after  == {n \in names : LexLess(params.Marker, n)}
      sorted == SortedSeq(after)
      count  == IF Len(sorted) < params.MaxKeys THEN Len(sorted)
                ELSE params.MaxKeys
      page   == SubSeq(sorted, 1, count)
      isCP(n) == IsCommonPrefix(n, params.Prefix, params.Delimiter)
      truncated == Len(sorted) > count
  IN  [ IsTruncated    |-> truncated,
        Contents       |-> SelectSeq(page, LAMBDA n : ~isCP(n)),
        CommonPrefixes |-> SelectSeq(page, LAMBDA n : isCP(n)),
        NextMarker     |-> IF truncated /\ params.Delimiter # Unset
                           THEN page[count] ELSE Undefined ]

\* ------------------------------------------------------------------------
\* State.
\* ------------------------------------------------------------------------

VARIABLES
  contents,        \* the keys held by the bucket that is listed
  stream,          \* "S3ListObjectStream" or "S3ConcurrentListObjectStream"
  data,            \* the configuration object written to the stream
  options,         \* the options object of the run, after defaulting
  phase,           \* where the run is: "idle", "listObjects",
                   \* "listCommonPrefixes", "listObjectsConcurrently",
                   \* "called back"
  listing,         \* the top-level paged listing of the run
  commonPrefixes,  \* listCommonPrefixes: the common prefixes collected
  tasks,           \* listObjectsConcurrently: one task per common prefix
  running,         \* async.parallelLimit: tasks started and not called back
  errored,         \* async.parallelLimit: a task has called back with an error
  pushed,          \* the objects pushed downstream, in order
  callbacks,       \* the error argument of every call of the run's callback
  failedAttempts,  \* how many requests the S3 client has answered with an
                   \* error
  failures,        \* the errors of the page listings that failed, in order
  pushedWhenCalledBack
                   \* how many objects had been pushed when the run's callback
                   \* was first called

listVars ==
  << contents, stream, data, options, phase, listing, commonPrefixes,
     tasks, running, errored, pushed, callbacks, failedAttempts, failures,
     pushedWhenCalledBack >>

\* S3UsageStream.
VARIABLES
  usage,           \* the fields set by the constructor: delimiter, depth,
                   \* outputFactor, and the stream's highWaterMark
  totals,          \* this.totals: path -> running total object
  sortedTotals,    \* this.sortedTotals: the same objects, ordered by path
  count,           \* this.count
  emitted,         \* every snapshot pushed, in order
  unread,          \* how many of them are still in the readable buffer
  writeBuffer,     \* chunks written and not yet handed to _transform
  ending,          \* end() has been called
  clearing,        \* the buffered chunks are being processed
  written,         \* every chunk written, in order
  writtenAtEnd,    \* how many chunks had been written when end() was called
  transformed,     \* every chunk handed to _transform, in order
  errors,          \* the number of errors the stream has emitted
  threw,           \* _transform has thrown: its callback is never called
  derivedPaths     \* updateTotals' paths: the paths it assembled last

usageVars ==
  << usage, totals, sortedTotals, count, emitted, unread, writeBuffer,
     ending, clearing, written, writtenAtEnd, transformed, errors, threw,
     derivedPaths >>

\* ------------------------------------------------------------------------
\* Configuration objects.
\* ------------------------------------------------------------------------

\* The bucket name, 'b'.
BucketName == <<3>>

\* options.prefix: none, or 'a/'.
Prefixes == {Undefined, <<2, Slash>>}

\* What is written to an S3ListObjectStream.
ListConfigurations ==
  [ isObject : {TRUE}, s3Client : {TRUE}, bucket : {BucketName},
    prefix : Prefixes, delimiter : {Unset, Slash},
    maxKeys : 0..MaxKeysTried, maxConcurrency : {Unset} ]

\* What is written to an S3ConcurrentListObjectStream.
ConcurrentConfigurations ==
  [ isObject : {TRUE}, s3Client : {TRUE}, bucket : {BucketName},
    prefix : Prefixes, delimiter : {Unset},
    maxKeys : 0..MaxKeysTried, maxConcurrency : 0..MaxConcurrencyTried ]

\* Configuration objects that fail validation: not an object, no s3Client,
\* no bucket.
InvalidConfigurations ==
  [ isObject : {FALSE}, s3Client : {FALSE}, bucket : {Undefined},
    prefix : {Undefined}, delimiter : {Unset},
    maxKeys : {Unset}, maxConcurrency : {Unset} ]
  \cup
  [ isObject : {TRUE}, s3Client : {FALSE}, bucket : {BucketName},
    prefix : {Undefined}, delimiter : {Unset},
    maxKeys : {Unset}, maxConcurrency : {Unset} ]
  \cup
  [ isObject : {TRUE}, s3Client : {TRUE}, bucket : {Undefined},
    prefix : {Undefined}, delimiter : {Unset},
    maxKeys : {Unset}, maxConcurrency : {Unset} ]

\* A validation that does not look for the bucket.
ValidationErrorWithoutBucket(d) ==
  IF ~d.isObject THEN {"An object is expected."}
  ELSE IF ~d.s3Client THEN {"Missing options.s3Client"}
  ELSE NoError

\* The validation both streams start with; the error it yields, if any.
ValidationError(d) ==
  IF ~d.isObject THEN {"An object is expected."}
  ELSE IF ~d.s3Client THEN {"Missing options.s3Client"}
  ELSE IF d.bucket = Undefined THEN {"Missing options.bucket"}
  ELSE NoError

\* x || fallback for a number.
OrDefault(x, fallback) == IF x = Unset THEN fallback ELSE x

\* A paged listing that has just issued its first request, with no marker.
FirstRequest(prefix) ==
  [ prefix |-> prefix, marker |-> Undefined, attempt |-> 1,
    pages |-> 0, status |-> "requested", started |-> 1 ]

\* A task of listObjectsConcurrently that has not been started.
WaitingTask(prefix) ==
  [ prefix |-> prefix, marker |-> Undefined, attempt |-> 0,
    pages |-> 0, status |-> "waiting", started |-> 0 ]

\* Task options in which the prefix of the run is not replaced by the
\* common prefix.
taskOptionsOfTheRun(task) ==
  [task EXCEPT !.marker = listing.marker, !.prefix = listing.prefix]

\* The options a task lists with: a copy of the options of the run without
\* commonPrefixes and maxConcurrency, and so with the marker that
\* listCommonPrefixes used last, and with the common prefix as the prefix.
taskOptions(task) ==
  [task EXCEPT !.marker = listing.marker]

\* A listObjects that starts from the marker of the options it is given.
StartTaskAtMarker(task) ==
  [taskOptions(task) EXCEPT !.attempt = 1, !.status = "requested",
                            !.started = @ + 1]

\* listObjects, called for a task: the first page is requested, with no
\* marker.
StartTask(task) ==
  [taskOptions(task) EXCEPT !.marker = Undefined, !.attempt = 1,
                            !.status = "requested", !.started = @ + 1]

NoListing ==
  [ prefix |-> Undefined, marker |-> Undefined, attempt |-> 0,
    pages |-> 0, status |-> "none", started |-> 0 ]

\* ------------------------------------------------------------------------
\* One page: listObjectsPage and listCommonPrefixesPage.
\* ------------------------------------------------------------------------

\* The params object both page listings build from their options.
PageParams(o, l) ==
  [ Bucket |-> o.bucket, Delimiter |-> o.delimiter, Marker |-> l.marker,
    MaxKeys |-> o.maxKeys, Prefix |-> l.prefix ]

\* async.retry giving one attempt more than retryTimes.
RetryOutcomeOneMore(attempt, ok) ==
  IF ok THEN "response"
  ELSE IF attempt <= retryTimes THEN "retry"
  ELSE "error"

\* async.retry(3, ...): what happens when an attempt of a page comes back.
RetryOutcome(attempt, ok) ==
  IF ok THEN "response"
  ELSE IF attempt < retryTimes THEN "retry"
  ELSE "error"

\* A page whose next marker is its first key.
listObjectsPageFirstKey(response) ==
  IF response.IsTruncated
  THEN IF response.Contents = <<>>
       THEN [ throws |-> TRUE, nextMarker |-> Undefined,
              s3Objects |-> <<>> ]
       ELSE [ throws |-> FALSE,
              nextMarker |-> response.Contents[1],
              s3Objects |-> response.Contents ]
  ELSE [ throws |-> FALSE, nextMarker |-> Undefined,
         s3Objects |-> response.Contents ]

\* listObjectsPage, on a response: the next marker is the last key of a
\* truncated page.  Reading the key of the last element of an empty Contents
\* throws.
listObjectsPage(response) ==
  IF response.IsTruncated
  THEN IF response.Contents = <<>>
       THEN [ throws |-> TRUE, nextMarker |-> Undefined,
              s3Objects |-> <<>> ]
       ELSE [ throws |-> FALSE,
              nextMarker |-> response.Contents[Len(response.Contents)],
              s3Objects |-> response.Contents ]
  ELSE [ throws |-> FALSE, nextMarker |-> Undefined,
         s3Objects |-> response.Contents ]

\* listCommonPrefixesPage, on a response: the next marker is the NextMarker
\* of a truncated page.
listCommonPrefixesPage(response) ==
  [ nextMarker |-> IF response.IsTruncated THEN response.NextMarker
                   ELSE Undefined,
    s3Objects |-> response.Contents,
    commonPrefixesPage |-> response.CommonPrefixes ]

\* Pushing a page in place of what was pushed before it.
PushAllInPlace(out, s3Objects, bucket) ==
  [i \in 1..Len(s3Objects) |-> [Bucket |-> bucket, Key |-> s3Objects[i]]]

\* Pushing the objects of a page last to first.
PushAllReversed(out, s3Objects, bucket) ==
  out \o [i \in 1..Len(s3Objects) |->
           [Bucket |-> bucket, Key |-> s3Objects[Len(s3Objects) + 1 - i]]]

\* Pushing a page of which only the first object is given the bucket.
PushAllFirstOnly(out, s3Objects, bucket) ==
  out \o [i \in 1..Len(s3Objects) |->
           [Bucket |-> IF i = 1 THEN bucket ELSE Undefined,
            Key |-> s3Objects[i]]]

\* s3Objects.forEach: every object gets the bucket and is pushed.
PushAll(out, s3Objects, bucket) ==
  out \o [i \in 1..Len(s3Objects) |-> [Bucket |-> bucket, Key |-> s3Objects[i]]]

\* A listing that requests the next page before it pushes a page: the
\* objects of a page that is followed by another are held back.
listRecusivelyRequestingFirst(o, l, ok) ==
  LET outcome == RetryOutcome(l.attempt, ok)
      page    == listObjectsPage(S3ListObjects(contents, PageParams(o, l)))
  IN  IF outcome = "retry"
      THEN [ l |-> [l EXCEPT !.attempt = @ + 1], s3Objects |-> <<>> ]
      ELSE IF outcome = "error"
      THEN [ l |-> [l EXCEPT !.status = "failed"], s3Objects |-> <<>> ]
      ELSE IF page.throws
      THEN [ l |-> [l EXCEPT !.status = "thrown"], s3Objects |-> <<>> ]
      ELSE IF page.nextMarker # Undefined
      THEN [ l |-> [l EXCEPT !.marker = page.nextMarker, !.attempt = 1,
                             !.pages = @ + 1],
             s3Objects |-> <<>> ]
      ELSE [ l |-> [l EXCEPT !.status = "done", !.pages = @ + 1],
             s3Objects |-> page.s3Objects ]

\* A retry whose response, when it comes at last, is passed on without its
\* objects.
listRecusivelyLosingRetried(o, l, ok) ==
  LET outcome == RetryOutcome(l.attempt, ok)
      page    == listObjectsPage(S3ListObjects(contents, PageParams(o, l)))
      kept    == IF l.attempt > 1 THEN <<>> ELSE page.s3Objects
  IN  IF outcome = "retry"
      THEN [ l |-> [l EXCEPT !.attempt = @ + 1], s3Objects |-> <<>> ]
      ELSE IF outcome = "error"
      THEN [ l |-> [l EXCEPT !.status = "failed"], s3Objects |-> <<>> ]
      ELSE IF page.throws
      THEN [ l |-> [l EXCEPT !.status = "thrown"], s3Objects |-> <<>> ]
      ELSE IF page.nextMarker # Undefined
      THEN [ l |-> [l EXCEPT !.marker = page.nextMarker, !.attempt = 1,
                             !.pages = @ + 1],
             s3Objects |-> kept ]
      ELSE [ l |-> [l EXCEPT !.status = "done", !.pages = @ + 1],
             s3Objects |-> kept ]

\* listObjects.listRecusively, on the outcome of a page: the listing
\* afterwards, together with what it pushed.  Status "requested" means the
\* next request is out, "done" that callback() was called, "failed" that
\* callback(error) was called, "thrown" that the handler threw.
listRecusively(o, l, ok) ==
  LET outcome == RetryOutcome(l.attempt, ok)
      page    == listObjectsPage(S3ListObjects(contents, PageParams(o, l)))
  IN  IF outcome = "retry"
      THEN [ l |-> [l EXCEPT !.attempt = @ + 1], s3Objects |-> <<>> ]
      ELSE IF outcome = "error"
      THEN [ l |-> [l EXCEPT !.status = "failed"], s3Objects |-> <<>> ]
      ELSE IF page.throws
      THEN [ l |-> [l EXCEPT !.status = "thrown"], s3Objects |-> <<>> ]
      ELSE IF page.nextMarker # Undefined
      THEN [ l |-> [l EXCEPT !.marker = page.nextMarker, !.attempt = 1,
                             !.pages = @ + 1],
             s3Objects |-> page.s3Objects ]
      ELSE [ l |-> [l EXCEPT !.status = "done", !.pages = @ + 1],
             s3Objects |-> page.s3Objects ]

\* The error a failed listing hands to its callback: the request that
\* failed identifies it.
ErrorOf(l) == {<<l.prefix, l.marker>>}

\* What the S3 client's answer to a request of listing l adds to the record
\* of failed attempts and failed listings, and of when the run called back.
\* The client answers with an error at most MaxFailedAttempts times.
Answered(l, ok) ==
  /\ ok \/ failedAttempts < MaxFailedAttempts
  /\ failedAttempts' = IF ok THEN failedAttempts ELSE failedAttempts + 1
  /\ failures' = IF RetryOutcome(l.attempt, ok) = "error"
                 THEN Append(failures, ErrorOf(l)) ELSE failures
  /\ pushedWhenCalledBack' = IF callbacks = <<>> /\ callbacks' # <<>>
                             THEN Len(pushed') ELSE pushedWhenCalledBack

\* ------------------------------------------------------------------------
\* async.parallelLimit.
\* ------------------------------------------------------------------------

Waiting(ts) == {i \in 1..Len(ts) : ts[i].status = "waiting"}

InFlight(ts) == {i \in 1..Len(ts) : ts[i].status \in {"requested", "thrown"}}

Least(S) == CHOOSE x \in S : \A y \in S : x <= y

\* replenish with the test of the limit off by one.
RECURSIVE replenishOneTooMany(_, _, _)
replenishOneTooMany(ts, run, limit) ==
  IF run <= limit /\ Waiting(ts) # {}
  THEN LET next == Least(Waiting(ts))
       IN  replenishOneTooMany([ts EXCEPT ![next] = StartTask(ts[next])],
                               run + 1, limit)
  ELSE [tasks |-> ts, running |-> run]

\* A replenish that starts the task that was added last.
RECURSIVE replenishLastFirst(_, _, _)
replenishLastFirst(ts, run, limit) ==
  IF run < limit /\ Waiting(ts) # {}
  THEN LET next == CHOOSE x \in Waiting(ts) : \A y \in Waiting(ts) : y <= x
       IN  replenishLastFirst([ts EXCEPT ![next] = StartTask(ts[next])],
                              run + 1, limit)
  ELSE [tasks |-> ts, running |-> run]

\* The replenish loop: while fewer than limit tasks are running, the next
\* task in array order is started.  Starting a task calls listObjects with
\* the task's options, which issues the first page request with no marker.
RECURSIVE replenish(_, _, _)
replenish(ts, run, limit) ==
  IF run < limit /\ Waiting(ts) # {}
  THEN LET next == Least(Waiting(ts))
       IN  replenish([ts EXCEPT ![next] = StartTask(ts[next])],
                     run + 1, limit)
  ELSE [tasks |-> ts, running |-> run]

\* A final callback that is not wrapped: every call goes through.
onceNotWrapped(cbs, error) == Append(cbs, error)

\* A final callback that keeps the error of the latest call.
onceLatest(cbs, error) == <<error>>

\* The final callback of parallelLimit is wrapped in once().
once(cbs, error) == IF cbs = <<>> THEN <<error>> ELSE cbs

\* ------------------------------------------------------------------------
\* S3ListObjectStream.
\* ------------------------------------------------------------------------

ListInit ==
  /\ contents \in Buckets
  /\ stream \in {"S3ListObjectStream", "S3ConcurrentListObjectStream"}
  /\ data \in IF stream = "S3ListObjectStream"
              THEN ListConfigurations \cup InvalidConfigurations
              ELSE ConcurrentConfigurations \cup InvalidConfigurations
  /\ options = data
  /\ phase = "idle"
  /\ listing = NoListing
  /\ commonPrefixes = <<>>
  /\ tasks = <<>>
  /\ running = 0
  /\ errored = FALSE
  /\ pushed = <<>>
  /\ callbacks = <<>>
  /\ failedAttempts = 0
  /\ failures = <<>>
  /\ pushedWhenCalledBack = 0

\* _transform -> listObjects: validate, default maxKeys, request the first
\* page.
listObjects ==
  /\ stream = "S3ListObjectStream"
  /\ phase = "idle"
  /\ IF ValidationError(data) # NoError
     THEN /\ callbacks' = Append(callbacks, ValidationError(data))
          /\ phase' = "called back"
          /\ UNCHANGED <<options, listing>>
     ELSE /\ options' = [data EXCEPT !.maxKeys = OrDefault(@, defaultMaxKeys)]
          /\ listing' = FirstRequest(data.prefix)
          /\ phase' = "listObjects"
          /\ UNCHANGED callbacks
  /\ UNCHANGED <<contents, stream, data, commonPrefixes, tasks, running,
                 errored, pushed, failedAttempts, failures,
                 pushedWhenCalledBack>>
  /\ UNCHANGED usageVars

\* The S3 client answers the page request of the sequential listing.
listObjectsResponse(ok) ==
  /\ phase = "listObjects"
  /\ listing.status = "requested"
  /\ LET r == listRecusively(options, listing, ok)
     IN  /\ listing' = r.l
         /\ pushed' = PushAll(pushed, r.s3Objects, options.bucket)
         /\ IF r.l.status = "done"
            THEN /\ callbacks' = Append(callbacks, NoError)
                 /\ phase' = "called back"
            ELSE IF r.l.status = "failed"
            THEN /\ callbacks' = Append(callbacks, ErrorOf(listing))
                 /\ phase' = "called back"
            ELSE UNCHANGED <<callbacks, phase>>
  /\ Answered(listing, ok)
  /\ UNCHANGED <<contents, stream, data, options, commonPrefixes, tasks,
                 running, errored>>
  /\ UNCHANGED usageVars

\* ------------------------------------------------------------------------
\* S3ConcurrentListObjectStream.
\* ------------------------------------------------------------------------

\* _transform -> processIncomingObject: validate, default the options, and
\* start the series with listCommonPrefixes, which requests the first page.
processIncomingObject ==
  /\ stream = "S3ConcurrentListObjectStream"
  /\ phase = "idle"
  /\ IF ValidationError(data) # NoError
     THEN /\ callbacks' = Append(callbacks, ValidationError(data))
          /\ phase' = "called back"
          /\ UNCHANGED <<options, listing>>
     ELSE /\ options' =
               [data EXCEPT
                  !.delimiter = OrDefault(@, Slash),
                  !.maxConcurrency = OrDefault(@, defaultMaxConcurrency),
                  !.maxKeys = OrDefault(@, defaultMaxKeys)]
          /\ listing' = FirstRequest(data.prefix)
          /\ phase' = "listCommonPrefixes"
          /\ UNCHANGED callbacks
  /\ UNCHANGED <<contents, stream, data, commonPrefixes, tasks, running,
                 errored, pushed, failedAttempts, failures,
                 pushedWhenCalledBack>>
  /\ UNCHANGED usageVars

\* listObjectsConcurrently leaving out the last common prefix.
listObjectsConcurrentlyButLast(prefixes, limit) ==
  LET all == [i \in 1..(Len(prefixes) - 1) |-> WaitingTask(prefixes[i])]
      started == replenish(all, 0, limit)
  IN  /\ tasks' = started.tasks
      /\ running' = started.running
      /\ errored' = FALSE
      /\ IF Len(all) = 0
         THEN /\ callbacks' = once(callbacks, NoError)
              /\ phase' = "called back"
         ELSE /\ phase' = "listObjectsConcurrently"
              /\ UNCHANGED callbacks

\* A parallelLimit that only calls back from a task: never, without tasks.
listObjectsConcurrentlySilentWhenEmpty(prefixes, limit) ==
  LET all == [i \in 1..Len(prefixes) |-> WaitingTask(prefixes[i])]
      started == replenish(all, 0, limit)
  IN  /\ tasks' = started.tasks
      /\ running' = started.running
      /\ errored' = FALSE
      /\ phase' = "listObjectsConcurrently"
      /\ UNCHANGED callbacks

\* listObjectsConcurrently: one task per common prefix, handed to
\* async.parallelLimit, which starts the first maxConcurrency of them and
\* calls back at once when there is none.
listObjectsConcurrently(prefixes, limit) ==
  LET all == [i \in 1..Len(prefixes) |-> WaitingTask(prefixes[i])]
      started == replenish(all, 0, limit)
  IN  /\ tasks' = started.tasks
      /\ running' = started.running
      /\ errored' = FALSE
      /\ IF Len(all) = 0
         THEN /\ callbacks' = once(callbacks, NoError)
              /\ phase' = "called back"
         ELSE /\ phase' = "listObjectsConcurrently"
              /\ UNCHANGED callbacks

\* A series that goes on to listObjectsConcurrently when listCommonPrefixes
\* has failed, with the common prefixes collected until then.
listCommonPrefixesResponseGoingOn(ok) ==
  /\ phase = "listCommonPrefixes"
  /\ listing.status = "requested"
  /\ LET outcome == RetryOutcome(listing.attempt, ok)
         page == listCommonPrefixesPage(
                   S3ListObjects(contents, PageParams(options, listing)))
     IN  IF outcome = "retry"
         THEN /\ listing' = [listing EXCEPT !.attempt = @ + 1]
              /\ UNCHANGED <<commonPrefixes, pushed, tasks, running, errored,
                             callbacks, phase>>
         ELSE IF outcome = "error"
         THEN /\ listing' = [listing EXCEPT !.status = "failed"]
              /\ listObjectsConcurrently(commonPrefixes,
                                         options.maxConcurrency)
              /\ UNCHANGED <<commonPrefixes, pushed>>
         ELSE /\ commonPrefixes' = commonPrefixes \o page.commonPrefixesPage
              /\ pushed' = PushAll(pushed, page.s3Objects, options.bucket)
              /\ IF page.nextMarker # Undefined
                 THEN /\ listing' = [listing EXCEPT
                                       !.marker = page.nextMarker,
                                       !.attempt = 1, !.pages = @ + 1]
                      /\ UNCHANGED <<tasks, running, errored, callbacks,
                                     phase>>
                 ELSE /\ listing' = [listing EXCEPT !.status = "done",
                                                    !.pages = @ + 1]
                      /\ listObjectsConcurrently(commonPrefixes',
                                                 options.maxConcurrency)
  /\ Answered(listing, ok)
  /\ UNCHANGED <<contents, stream, data, options>>
  /\ UNCHANGED usageVars

\* The S3 client answers the page request of listCommonPrefixes.
listCommonPrefixesResponse(ok) ==
  /\ phase = "listCommonPrefixes"
  /\ listing.status = "requested"
  /\ LET outcome == RetryOutcome(listing.attempt, ok)
         page == listCommonPrefixesPage(
                   S3ListObjects(contents, PageParams(options, listing)))
     IN  IF outcome = "retry"
         THEN /\ listing' = [listing EXCEPT !.attempt = @ + 1]
              /\ UNCHANGED <<commonPrefixes, pushed, tasks, running, errored,
                             callbacks, phase>>
         ELSE IF outcome = "error"
         THEN /\ listing' = [listing EXCEPT !.status = "failed"]
              /\ callbacks' = Append(callbacks, ErrorOf(listing))
              /\ phase' = "called back"
              /\ UNCHANGED <<commonPrefixes, pushed, tasks, running, errored>>
         ELSE /\ commonPrefixes' = commonPrefixes \o page.commonPrefixesPage
              /\ pushed' = PushAll(pushed, page.s3Objects, options.bucket)
              /\ IF page.nextMarker # Undefined
                 THEN /\ listing' = [listing EXCEPT
                                       !.marker = page.nextMarker,
                                       !.attempt = 1, !.pages = @ + 1]
                      /\ UNCHANGED <<tasks, running, errored, callbacks,
                                     phase>>
                 ELSE /\ listing' = [listing EXCEPT !.status = "done",
                                                    !.pages = @ + 1]
                      /\ listObjectsConcurrently(commonPrefixes',
                                                 options.maxConcurrency)
  /\ Answered(listing, ok)
  /\ UNCHANGED <<contents, stream, data, options>>
  /\ UNCHANGED usageVars

\* A parallelLimit that abandons the tasks in flight when one fails.
taskResponseCancelling(i, ok) ==
  /\ i \in 1..Len(tasks)
  /\ tasks[i].status = "requested"
  /\ LET r == listRecusively(options, tasks[i], ok)
         updated == [tasks EXCEPT ![i] = r.l]
     IN  /\ pushed' = PushAll(pushed, r.s3Objects, options.bucket)
         /\ IF r.l.status = "failed"
            THEN /\ tasks' = [j \in 1..Len(tasks) |->
                                IF updated[j].status = "requested"
                                THEN [updated[j] EXCEPT !.status = "done"]
                                ELSE updated[j]]
                 /\ running' = 0
                 /\ errored' = TRUE
                 /\ callbacks' = once(callbacks, ErrorOf(tasks[i]))
                 /\ phase' = "called back"
            ELSE IF r.l.status = "done" /\ ~errored
            THEN LET next == replenish(updated, running - 1,
                                       options.maxConcurrency)
                 IN  /\ tasks' = next.tasks
                     /\ running' = next.running
                     /\ UNCHANGED errored
                     /\ IF Waiting(updated) = {} /\ running - 1 <= 0
                        THEN /\ callbacks' = once(callbacks, NoError)
                             /\ phase' = "called back"
                        ELSE UNCHANGED <<callbacks, phase>>
            ELSE IF r.l.status = "done"
            THEN /\ tasks' = updated
                 /\ running' = running - 1
                 /\ UNCHANGED <<errored, callbacks, phase>>
            ELSE /\ tasks' = updated
                 /\ UNCHANGED <<running, errored, callbacks, phase>>
  /\ Answered(tasks[i], ok)
  /\ UNCHANGED <<contents, stream, data, options, listing, commonPrefixes>>
  /\ UNCHANGED usageVars

\* A parallelLimit that goes on starting tasks after one has failed.
taskResponseReplenishing(i, ok) ==
  /\ i \in 1..Len(tasks)
  /\ tasks[i].status = "requested"
  /\ LET r == listRecusively(options, tasks[i], ok)
         updated == [tasks EXCEPT ![i] = r.l]
     IN  /\ pushed' = PushAll(pushed, r.s3Objects, options.bucket)
         /\ IF r.l.status = "failed"
            THEN /\ tasks' = updated
                 /\ running' = running - 1
                 /\ errored' = TRUE
                 /\ callbacks' = once(callbacks, ErrorOf(tasks[i]))
                 /\ phase' = "called back"
            ELSE IF r.l.status = "done"
            THEN LET next == replenish(updated, running - 1,
                                       options.maxConcurrency)
                 IN  /\ tasks' = next.tasks
                     /\ running' = next.running
                     /\ UNCHANGED errored
                     /\ IF Waiting(updated) = {} /\ running - 1 <= 0
                        THEN /\ callbacks' = once(callbacks, NoError)
                             /\ phase' = "called back"
                        ELSE UNCHANGED <<callbacks, phase>>
            ELSE /\ tasks' = updated
                 /\ UNCHANGED <<running, errored, callbacks, phase>>
  /\ Answered(tasks[i], ok)
  /\ UNCHANGED <<contents, stream, data, options, listing, commonPrefixes>>
  /\ UNCHANGED usageVars

\* The S3 client answers the page request of task i.  A task that calls back
\* frees its slot; an error goes to the final callback and stops the
\* starting of tasks, a success starts the next waiting task, and the final
\* callback is called when no task is left and none is running.
taskResponse(i, ok) ==
  /\ i \in 1..Len(tasks)
  /\ tasks[i].status = "requested"
  /\ LET r == listRecusively(options, tasks[i], ok)
         updated == [tasks EXCEPT ![i] = r.l]
     IN  /\ pushed' = PushAll(pushed, r.s3Objects, options.bucket)
         /\ IF r.l.status = "failed"
            THEN /\ tasks' = updated
                 /\ running' = running - 1
                 /\ errored' = TRUE
                 /\ callbacks' = once(callbacks, ErrorOf(tasks[i]))
                 /\ phase' = "called back"
            ELSE IF r.l.status = "done" /\ ~errored
            THEN LET next == replenish(updated, running - 1,
                                       options.maxConcurrency)
                 IN  /\ tasks' = next.tasks
                     /\ running' = next.running
                     /\ UNCHANGED errored
                     /\ IF Waiting(updated) = {} /\ running - 1 <= 0
                        THEN /\ callbacks' = once(callbacks, NoError)
                             /\ phase' = "called back"
                        ELSE UNCHANGED <<callbacks, phase>>
            ELSE IF r.l.status = "done"
            THEN /\ tasks' = updated
                 /\ running' = running - 1
                 /\ UNCHANGED <<errored, callbacks, phase>>
            ELSE /\ tasks' = updated
                 /\ UNCHANGED <<running, errored, callbacks, phase>>
  /\ Answered(tasks[i], ok)
  /\ UNCHANGED <<contents, stream, data, options, listing, commonPrefixes>>
  /\ UNCHANGED usageVars


\* ------------------------------------------------------------------------
\* S3UsageStream: the chunks written to it.
\* ------------------------------------------------------------------------

S3Object(key, size, class) ==
  [ isNull |-> FALSE, typeofBucket |-> "string", typeofKey |-> "string",
    typeofSize |-> "number", Bucket |-> BucketName, Key |-> key,
    Size |-> size, StorageClass |-> class ]

\* Three objects in one folder two levels down, a/b/1, a/b/2 and a/b/3
\* (written a/b/a, a/b/b and a/b/c), and objects with the keys b/a and a.
ValidChunks ==
  { S3Object(<<2, Slash, 3, Slash, 2>>, 10, "STANDARD"),
    S3Object(<<2, Slash, 3, Slash, 3>>, 20, "STANDARD"),
    S3Object(<<2, Slash, 3, Slash, 4>>, 30, "GLACIER"),
    S3Object(<<3, Slash, 2>>, 10, "STANDARD"),
    S3Object(<<2>>, 30, "STANDARD") }

\* An object of a storage class that is not in constants.storageClass.

UnknownClassChunks == { S3Object(<<2, Slash, 2>>, 10, "UNKNOWN") }

\* The bucket name 'constructor', written with one character: a property
\* that this.totals = {} inherits from Object.prototype.
constructor == <<5>>

\* What a lookup in an object literal finds although it was never stored.
ObjectPrototype == {constructor}

\* The object b/a of the bucket named 'constructor'.
InheritedNameChunks ==
  { [S3Object(<<3, Slash, 2>>, 10, "STANDARD") EXCEPT !.Bucket = constructor] }

\* null, {} (an object without bucket, key or size), and the object b/a
\* without its size.
InvalidChunks ==
  { [ isNull |-> TRUE, typeofBucket |-> "undefined",
      typeofKey |-> "undefined", typeofSize |-> "undefined",
      Bucket |-> Undefined, Key |-> Undefined, Size |-> 0,
      StorageClass |-> "undefined" ],
    [ isNull |-> FALSE, typeofBucket |-> "undefined",
      typeofKey |-> "undefined", typeofSize |-> "undefined",
      Bucket |-> Undefined, Key |-> Undefined, Size |-> 0,
      StorageClass |-> "undefined" ],
    [ isNull |-> FALSE, typeofBucket |-> "string",
      typeofKey |-> "string", typeofSize |-> "undefined",
      Bucket |-> BucketName, Key |-> <<3, Slash, 2>>, Size |-> 0,
      StorageClass |-> "STANDARD" ] }

Chunks ==
  ValidChunks \cup UnknownClassChunks \cup InheritedNameChunks
  \cup InvalidChunks

\* ------------------------------------------------------------------------
\* S3UsageStream.updateTotals.
\* ------------------------------------------------------------------------

\* String.prototype.split for a one character separator.
RECURSIVE Split(_, _)
Split(s, d) ==
  LET at == IndexOf(s, d, 1)
  IN  IF at = 0 THEN <<s>>
      ELSE <<SubSeq(s, 1, at - 1)>> \o Split(SubSeq(s, at + 1, Len(s)), d)

\* Array.prototype.join.
RECURSIVE Join(_, _)
Join(segments, d) ==
  IF segments = <<>> THEN <<>>
  ELSE IF Len(segments) = 1 THEN segments[1]
  ELSE segments[1] \o <<d>> \o Join(Tail(segments), d)

Minimum(a, b) == IF a < b THEN a ELSE b

\* Path assembly that forgets to drop the file name.
PathsWithFileName(s3Object, depth, delimiter) ==
  LET pathSegments == Split(s3Object.Key, delimiter)
      limit == Minimum(depth, Len(pathSegments))
  IN  IF depth > 0
      THEN <<s3Object.Bucket>> \o
           [ index \in 1..limit |->
               Join(<<s3Object.Bucket>> \o SubSeq(pathSegments, 1, index),
                    delimiter) ]
      ELSE <<s3Object.Bucket>>

\* Path assembly that leaves out the paths that have a node already.
PathsWithoutNode(s3Object, depth, delimiter) ==
  LET split == Split(s3Object.Key, delimiter)
      pathSegments == SubSeq(split, 1, Len(split) - 1)
      limit == Minimum(depth, Len(pathSegments))
      all == IF depth > 0
             THEN <<s3Object.Bucket>> \o
                  [ index \in 1..limit |->
                      Join(<<s3Object.Bucket>>
                             \o SubSeq(pathSegments, 1, index),
                           delimiter) ]
             ELSE <<s3Object.Bucket>>
  IN  SelectSeq(all, LAMBDA path : path \notin DOMAIN totals)

\* The paths an object is counted under: the bucket, and with depth > 0 the
\* first min(depth, segments) folders of the key, the file name dropped.
Paths(s3Object, depth, delimiter) ==
  LET split == Split(s3Object.Key, delimiter)
      pathSegments == SubSeq(split, 1, Len(split) - 1)
      limit == Minimum(depth, Len(pathSegments))
  IN  IF depth > 0
      THEN <<s3Object.Bucket>> \o
           [ index \in 1..limit |->
               Join(<<s3Object.Bucket>> \o SubSeq(pathSegments, 1, index),
                    delimiter) ]
      ELSE <<s3Object.Bucket>>

\* An index search that always answers the end of the array.
sortedIndexByAtEnd(array, path, low, high) == high

\* _.sortedIndexBy(array, value, item => item.path): the binary search of
\* lodash, on zero-based indexes low and high.
RECURSIVE sortedIndexBy(_, _, _, _)
sortedIndexBy(array, path, low, high) ==
  IF low < high
  THEN LET mid == (low + high) \div 2
       IN  IF LexLess(array[mid + 1], path)
           THEN sortedIndexBy(array, path, mid + 1, high)
           ELSE sortedIndexBy(array, path, low, mid)
  ELSE high

\* Array.prototype.splice(index, 0, item), index zero-based.
Splice(array, index, item) ==
  SubSeq(array, 1, index) \o <<item>> \o SubSeq(array, index + 1, Len(array))

\* A record created with the one storage class that is most common.
NewTotalStandardOnly(path) ==
  [ path |-> path,
    storageClass |-> [c \in {"STANDARD"} |-> [count |-> 0, size |-> 0]] ]

\* The record created for a path that has none yet.
NewTotal(path) ==
  [ path |-> path,
    storageClass |-> [c \in storageClass |-> [count |-> 0, size |-> 0]] ]

\* The body of paths.forEach counting the object without adding its size.
AddToPathCountOnly(state, path, s3Object) ==
  LET stored == path \in DOMAIN state.totals
      before == IF stored THEN state.totals[path] ELSE NewTotal(path)
      after == [before EXCEPT
                  !.storageClass[s3Object.StorageClass].count = @ + 1]
  IN  IF path \in ObjectPrototype /\ ~stored
      THEN [ totals |-> state.totals, sortedTotals |-> state.sortedTotals,
             threw |-> TRUE ]
      ELSE [ totals |-> [p \in DOMAIN state.totals \cup {path} |->
                           IF p = path THEN after ELSE state.totals[p]],
             sortedTotals |->
               IF stored THEN state.sortedTotals
               ELSE Splice(state.sortedTotals,
                           sortedIndexBy(state.sortedTotals, path, 0,
                                         Len(state.sortedTotals)),
                           path),
             threw |-> FALSE ]

\* The body of paths.forEach creating the record afresh every time.
AddToPathAfresh(state, path, s3Object) ==
  LET class == s3Object.StorageClass
      after == [NewTotal(path) EXCEPT
                  !.storageClass[class].count = 1,
                  !.storageClass[class].size = s3Object.Size]
  IN  [ totals |-> [p \in DOMAIN state.totals \cup {path} |->
                      IF p = path THEN after ELSE state.totals[p]],
        sortedTotals |->
          IF path \in DOMAIN state.totals THEN state.sortedTotals
          ELSE Splice(state.sortedTotals,
                      sortedIndexBy(state.sortedTotals, path, 0,
                                    Len(state.sortedTotals)),
                      path),
        threw |-> FALSE ]

\* The body of paths.forEach storing a new record under its path only: it
\* is not inserted into sortedTotals.
AddToPathUnlisted(state, path, s3Object) ==
  LET stored == path \in DOMAIN state.totals
      found == stored \/ path \in ObjectPrototype
      before == IF stored THEN state.totals[path] ELSE NewTotal(path)
      class == s3Object.StorageClass
      after == [before EXCEPT
                  !.storageClass[class].count = @ + 1,
                  !.storageClass[class].size = @ + s3Object.Size]
  IN  IF found /\ ~stored
      THEN [ totals |-> state.totals, sortedTotals |-> state.sortedTotals,
             threw |-> TRUE ]
      ELSE [ totals |-> [p \in DOMAIN state.totals \cup {path} |->
                           IF p = path THEN after ELSE state.totals[p]],
             sortedTotals |-> state.sortedTotals,
             threw |-> FALSE ]

\* The body of paths.forEach for one path: create and insert the record if
\* !self.totals[path], then add the object to its storage class.  The lookup
\* finds what paths stored and what the object literal inherits; what it
\* inherits has no storageClass, and adding to it throws.  sortedTotals
\* holds the records of totals by reference, here by path.
AddToPath(state, path, s3Object) ==
  LET stored == path \in DOMAIN state.totals
      found == stored \/ path \in ObjectPrototype
      before == IF stored THEN state.totals[path] ELSE NewTotal(path)
      class == s3Object.StorageClass
      after == [before EXCEPT
                  !.storageClass[class].count = @ + 1,
                  !.storageClass[class].size = @ + s3Object.Size]
  IN  IF found /\ ~stored
      THEN [ totals |-> state.totals, sortedTotals |-> state.sortedTotals,
             threw |-> TRUE ]
      ELSE [ totals |-> [p \in DOMAIN state.totals \cup {path} |->
                           IF p = path THEN after ELSE state.totals[p]],
             sortedTotals |->
               IF ~found
               THEN Splice(state.sortedTotals,
                           sortedIndexBy(state.sortedTotals, path, 0,
                                         Len(state.sortedTotals)),
                           path)
               ELSE state.sortedTotals,
             threw |-> FALSE ]

\* paths.forEach, up to the path that throws if one does.
RECURSIVE AddToPaths(_, _, _)
AddToPaths(state, paths, s3Object) ==
  IF paths = <<>> \/ state.threw THEN state
  ELSE AddToPaths(AddToPath(state, Head(paths), s3Object), Tail(paths),
                  s3Object)

\* The totals of a stream as paths.forEach finds them.
Totals(state) ==
  [ totals |-> state.totals, sortedTotals |-> state.sortedTotals,
    threw |-> FALSE ]

\* A copy of the array only (_.clone): its elements are the node objects of
\* this.totals themselves, written as references to them.
cloneShallow(state) ==
  [i \in 1..Len(state.sortedTotals) |-> [ref |-> state.sortedTotals[i]]]

\* _.cloneDeep(this.sortedTotals)
cloneDeep(state) ==
  [i \in 1..Len(state.sortedTotals) |-> state.totals[state.sortedTotals[i]]]

\* this.push(snapshot): the snapshot joins the readable buffer.
push(state, snapshot) ==
  [state EXCEPT !.emitted = Append(@, snapshot), !.unread = @ + 1]

\* updateTotals pushing a copy after every object, whatever outputFactor.
updateTotalsPushingEveryTime(state, s3Object) ==
  IF s3Object.StorageClass \notin storageClass
  THEN [state EXCEPT !.errors = @ + 1]
  ELSE LET paths == Paths(s3Object, state.usage.depth,
                          state.usage.delimiter)
           added == AddToPaths(Totals(state), paths, s3Object)
           counted == [state EXCEPT !.derivedPaths = paths,
                                    !.totals = added.totals,
                                    !.sortedTotals = added.sortedTotals,
                                    !.count = @ + 1]
       IN  IF added.threw
           THEN [state EXCEPT !.derivedPaths = paths,
                              !.totals = added.totals,
                              !.sortedTotals = added.sortedTotals,
                              !.threw = TRUE]
           ELSE push(counted, cloneDeep(counted))

\* updateTotals counting an object of an unknown storage class before it
\* reports the error.
updateTotalsCountingUnknown(state, s3Object) ==
  IF s3Object.StorageClass \notin storageClass
  THEN [state EXCEPT !.errors = @ + 1, !.count = @ + 1]
  ELSE LET paths == Paths(s3Object, state.usage.depth,
                          state.usage.delimiter)
           added == AddToPaths(Totals(state), paths, s3Object)
           counted == [state EXCEPT !.derivedPaths = paths,
                                    !.totals = added.totals,
                                    !.sortedTotals = added.sortedTotals,
                                    !.count = @ + 1]
       IN  IF added.threw
           THEN [state EXCEPT !.derivedPaths = paths,
                              !.totals = added.totals,
                              !.sortedTotals = added.sortedTotals,
                              !.threw = TRUE]
           ELSE IF counted.count % state.usage.outputFactor = 0
           THEN push(counted, cloneDeep(counted))
           ELSE counted

\* updateTotals: an unknown storage class is an error; otherwise the object
\* is added to its paths, the count goes up, and every outputFactor objects
\* a copy of the sorted totals is pushed.  When adding throws, the exception
\* leaves updateTotals before the count goes up and the callback is called.
updateTotals(state, s3Object) ==
  IF s3Object.StorageClass \notin storageClass
  THEN [state EXCEPT !.errors = @ + 1]
  ELSE LET paths == Paths(s3Object, state.usage.depth,
                          state.usage.delimiter)
           added == AddToPaths(Totals(state), paths, s3Object)
           counted == [state EXCEPT !.derivedPaths = paths,
                                    !.totals = added.totals,
                                    !.sortedTotals = added.sortedTotals,
                                    !.count = @ + 1]
       IN  IF added.threw
           THEN [state EXCEPT !.derivedPaths = paths,
                              !.totals = added.totals,
                              !.sortedTotals = added.sortedTotals,
                              !.threw = TRUE]
           ELSE IF counted.count % state.usage.outputFactor = 0
           THEN push(counted, cloneDeep(counted))
           ELSE counted

\* A _transform that does not look at the size.
transformWhateverSize(state, chunk) ==
  LET taken == [state EXCEPT !.transformed = Append(@, chunk)]
  IN  IF \/ chunk.isNull
         \/ chunk.typeofBucket # "string"
         \/ chunk.typeofKey # "string"
      THEN [taken EXCEPT !.errors = @ + 1]
      ELSE updateTotals(taken, chunk)

\* _transform: an invalid object definition is an error, anything else goes
\* to updateTotals.
transform(state, chunk) ==
  LET taken == [state EXCEPT !.transformed = Append(@, chunk)]
  IN  IF \/ chunk.isNull
         \/ chunk.typeofBucket # "string"
         \/ chunk.typeofKey # "string"
         \/ chunk.typeofSize # "number"
      THEN [taken EXCEPT !.errors = @ + 1]
      ELSE updateTotals(taken, chunk)

\* ------------------------------------------------------------------------
\* S3UsageStream: the stream around updateTotals.
\* ------------------------------------------------------------------------

\* The stream as one record, and the other way round.
Stream ==
  [ usage |-> usage, totals |-> totals, sortedTotals |-> sortedTotals,
    count |-> count, emitted |-> emitted, unread |-> unread,
    writeBuffer |-> writeBuffer, ending |-> ending, clearing |-> clearing,
    written |-> written, writtenAtEnd |-> writtenAtEnd,
    transformed |-> transformed, errors |-> errors, threw |-> threw,
    derivedPaths |-> derivedPaths ]

Constructed(state) ==
  /\ usage = state.usage
  /\ totals = state.totals
  /\ sortedTotals = state.sortedTotals
  /\ count = state.count
  /\ emitted = state.emitted
  /\ unread = state.unread
  /\ writeBuffer = state.writeBuffer
  /\ ending = state.ending
  /\ clearing = state.clearing
  /\ written = state.written
  /\ writtenAtEnd = state.writtenAtEnd
  /\ transformed = state.transformed
  /\ errors = state.errors
  /\ threw = state.threw
  /\ derivedPaths = state.derivedPaths

Becomes(state) ==
  /\ usage' = state.usage
  /\ totals' = state.totals
  /\ sortedTotals' = state.sortedTotals
  /\ count' = state.count
  /\ emitted' = state.emitted
  /\ unread' = state.unread
  /\ writeBuffer' = state.writeBuffer
  /\ ending' = state.ending
  /\ clearing' = state.clearing
  /\ written' = state.written
  /\ writtenAtEnd' = state.writtenAtEnd
  /\ transformed' = state.transformed
  /\ errors' = state.errors
  /\ threw' = state.threw
  /\ derivedPaths' = state.derivedPaths

\* The constructor: delimiter, depth and outputFactor are defaulted, the
\* running totals start empty.
S3UsageStream(opts) ==
  [ usage |-> [ delimiter |-> OrDefault(opts.delimiter, Slash),
                depth |-> OrDefault(opts.depth, 0),
                outputFactor |-> OrDefault(opts.outputFactor,
                                           defaultOutputFactor),
                highWaterMark |-> opts.highWaterMark ],
    totals |-> <<>>, sortedTotals |-> <<>>, count |-> 0,
    emitted |-> <<>>, unread |-> 0, writeBuffer |-> <<>>,
    ending |-> FALSE, clearing |-> FALSE,
    written |-> <<>>, writtenAtEnd |-> 0, transformed |-> <<>>,
    errors |-> 0, threw |-> FALSE, derivedPaths |-> <<>> ]

UsageOptions ==
  [ delimiter : {Unset}, depth : 0..MaxDepth,
    outputFactor : 0..MaxOutputFactor, highWaterMark : 1..MaxHighWaterMark ]

\* A Transform hands a written chunk to _transform at once when no chunk is
\* waiting and the readable buffer is below its high water mark; otherwise
\* the chunk waits in the write buffer.  After _transform has thrown the
\* write in progress never completes, and every later chunk waits.
write(state, chunk) ==
  LET noted == [state EXCEPT !.written = Append(@, chunk)]
  IN  IF /\ ~noted.threw
         /\ noted.writeBuffer = <<>>
         /\ noted.unread < noted.usage.highWaterMark
      THEN transform(noted, chunk)
      ELSE [noted EXCEPT !.writeBuffer = Append(@, chunk)]

\* stream.write(chunk)
Write(chunk) ==
  /\ ~ending
  /\ ~clearing
  /\ Len(written) < MaxWrites
  /\ Becomes(write(Stream, chunk))
  /\ UNCHANGED listVars

\* stream.read(): the consumer takes one snapshot; room in the readable
\* buffer lets the waiting chunks through.
Read ==
  /\ ~clearing
  /\ unread > 0
  /\ Becomes([Stream EXCEPT
               !.unread = @ - 1,
               !.clearing = /\ ~threw
                            /\ writeBuffer # <<>>
                            /\ unread - 1 < usage.highWaterMark])
  /\ UNCHANGED listVars

\* The next waiting chunk goes to _transform; this goes on, without
\* returning to the caller, until no chunk waits or the readable buffer is
\* full again.
ClearBuffer ==
  /\ clearing
  /\ LET done == transform([Stream EXCEPT !.writeBuffer = Tail(@)],
                           Head(writeBuffer))
     IN  Becomes([done EXCEPT
                    !.clearing = /\ ~done.threw
                                 /\ done.writeBuffer # <<>>
                                 /\ done.unread < done.usage.highWaterMark])
  /\ UNCHANGED listVars

\* end(), the part before Transform's end(): a copy of the sorted totals is
\* pushed.
end(state) ==
  [push(state, cloneDeep(state)) EXCEPT
     !.ending = TRUE, !.writtenAtEnd = Len(state.written)]

\* stream.end()
End ==
  /\ ~ending
  /\ ~clearing
  /\ Becomes(end(Stream))
  /\ UNCHANGED listVars

\* end(chunk): as end(), and Transform's end() writes the chunk.
EndWith(chunk) ==
  /\ ~ending
  /\ ~clearing
  /\ Len(written) < MaxWrites
  /\ Becomes(write(end(Stream), chunk))
  /\ UNCHANGED listVars

\* ------------------------------------------------------------------------
\* Specifications.
\* ------------------------------------------------------------------------

vars == <<listVars, usageVars>>

\* A listing run; the usage stream is left as constructed.
Init ==
  /\ ListInit
  /\ Constructed(S3UsageStream([delimiter |-> Unset, depth |-> Unset,
                                outputFactor |-> Unset,
                                highWaterMark |-> 1]))

Next ==
  \/ listObjects
  \/ \E ok \in BOOLEAN : listObjectsResponse(ok)
  \/ processIncomingObject
  \/ \E ok \in BOOLEAN : listCommonPrefixesResponse(ok)
  \/ \E i \in 1..Len(tasks), ok \in BOOLEAN : taskResponse(i, ok)

Spec == Init /\ [][Next]_vars

\* A listing run in which the stream is written to and every request that is
\* out is answered in the end.
FairSpec == Init /\ [][Next]_vars /\ WF_vars(Next)

\* A usage stream that is written to, read from and ended; no listing runs.
UsageInit ==
  /\ \E opts \in UsageOptions : Constructed(S3UsageStream(opts))
  /\ contents = {}
  /\ stream = "S3ListObjectStream"
  /\ data \in {d \in ListConfigurations :
                 d.prefix = Undefined /\ d.delimiter = Unset
                 /\ d.maxKeys = Unset}
  /\ options = data
  /\ phase = "idle"
  /\ listing = NoListing
  /\ commonPrefixes = <<>>
  /\ tasks = <<>>
  /\ running = 0
  /\ errored = FALSE
  /\ pushed = <<>>
  /\ callbacks = <<>>
  /\ failedAttempts = 0
  /\ failures = <<>>
  /\ pushedWhenCalledBack = 0

UsageNext ==
  \/ \E chunk \in Chunks : Write(chunk)
  \/ Read
  \/ ClearBuffer
  \/ End
  \/ \E chunk \in Chunks : EndWith(chunk)

UsageSpec == UsageInit /\ [][UsageNext]_vars

\* ------------------------------------------------------------------------
\* Properties.
\* ------------------------------------------------------------------------

Concurrent == stream = "S3ConcurrentListObjectStream"

\* C1: in a concurrent listing run the number of tasks that have started and
\* not completed is at most options.maxConcurrency in every state, so a task
\* is only ever started into a free slot; async's count of running tasks is
\* that number.
C1_ConcurrencyCeiling ==
  (Concurrent /\ tasks # <<>>) =>
    /\ Cardinality(InFlight(tasks)) <= options.maxConcurrency
    /\ running = Cardinality(InFlight(tasks))

\* The ceiling binds: two tasks run, one has completed and one waits.
C1_Witness ==
  /\ Concurrent
  /\ options.maxConcurrency = 2
  /\ Cardinality(InFlight(tasks)) = 2
  /\ Waiting(tasks) # {}

\* S3ListObjectStream.listObjects run to its end with every request
\* answered: page follows page until one comes back without a marker.  What
\* it pushes, in order.
RECURSIVE SequentialEntries(_, _)
SequentialEntries(o, l) ==
  LET step == listRecusively(o, l, TRUE)
      out  == PushAll(<<>>, step.s3Objects, o.bucket)
  IN  IF step.l.status = "requested"
      THEN out \o SequentialEntries(o, step.l)
      ELSE out

\* The sequential listing of the bucket and prefix of the run: no delimiter.
SequentialListing ==
  SequentialEntries([options EXCEPT !.delimiter = Unset],
                    FirstRequest(options.prefix))

\* C2: when no request of a concurrent listing run fails and the run has
\* called back, the set of entries it pushed downstream is the set of entries
\* a sequential listing of the same bucket and prefix pushes.
C2_SameEntriesAsSequential ==
  (Concurrent /\ callbacks = <<NoError>> /\ failedAttempts = 0) =>
    Range(pushed) = Range(SequentialListing)

\* C3: with N objects accepted so far and outputFactor F the stream has
\* emitted floor(N / F) snapshots, one with each object whose ordinal is a
\* multiple of F, and one more once end() has been called: floor(N / F) + 1
\* in all.
C3_EmissionCount ==
  Len(emitted) = (count \div usage.outputFactor) + (IF ending THEN 1 ELSE 0)

\* Three objects accepted with outputFactor 2 and the input ended: one
\* throttled snapshot and the final one.
C3_Witness ==
  /\ ending
  /\ usage.outputFactor = 2
  /\ count = 3
  /\ Len(emitted) = 2

\* An object that passes _transform and has a known storage class.
Accepted(chunk) ==
  /\ ~chunk.isNull
  /\ chunk.typeofBucket = "string"
  /\ chunk.typeofKey = "string"
  /\ chunk.typeofSize = "number"
  /\ chunk.StorageClass \in storageClass

\* The sorted totals of the accepted objects among chunks, added one after
\* the other to a stream with the depth and delimiter of this one.
RECURSIVE Totalled(_, _)
Totalled(state, chunks) ==
  IF chunks = <<>> THEN state
  ELSE Totalled(
         IF Accepted(Head(chunks))
         THEN Totals(AddToPaths(
                       state,
                       Paths(Head(chunks), usage.depth, usage.delimiter),
                       Head(chunks)))
         ELSE state,
         Tail(chunks))

Aggregate(chunks) ==
  cloneDeep(Totalled(Totals([totals |-> <<>>, sortedTotals |-> <<>>]),
                     chunks))

\* C4: once end() has been called and every written chunk has been
\* processed, the last snapshot emitted is the aggregate of the valid objects
\* written before end() (or of all that were written, counting the chunk
\* handed to end() itself).
C4_LastSnapshotIsComplete ==
  (ending /\ writeBuffer = <<>> /\ ~clearing) =>
    \/ emitted[Len(emitted)] = Aggregate(SubSeq(written, 1, writtenAtEnd))
    \/ emitted[Len(emitted)] = Aggregate(written)

\* An object that passes _transform and has a storage class that is not in
\* constants.storageClass.
UnknownStorageClass(chunk) ==
  /\ ~chunk.isNull
  /\ chunk.typeofBucket = "string"
  /\ chunk.typeofKey = "string"
  /\ chunk.typeofSize = "number"
  /\ chunk.StorageClass \notin storageClass

\* C5: a step that hands _transform an object of an unknown storage class
\* yields an error and leaves the totals, their sorted list and the count as
\* they were, and emits no snapshot (other than that of end(), when the
\* object is the chunk handed to end()).
C5_UnknownStorageClassRejected ==
  [][ ( /\ Len(transformed') = Len(transformed) + 1
        /\ UnknownStorageClass(transformed'[Len(transformed')]) )
      => /\ errors' = errors + 1
         /\ totals' = totals
         /\ sortedTotals' = sortedTotals
         /\ count' = count
         /\ emitted' = IF ending' = ending THEN emitted
                       ELSE Append(emitted, cloneDeep(Stream)) ]_vars

\* An object of an unknown storage class was the last one handed to
\* _transform, after objects that were counted.
C5_Witness ==
  /\ transformed # <<>>
  /\ UnknownStorageClass(transformed[Len(transformed)])
  /\ count > 0
  /\ errors = 1

\* Every paged listing of the run: the top-level one, then the tasks.
Listings == <<listing>> \o tasks

\* The run has started, no request is waiting for its answer and no handler
\* has thrown.
Settled ==
  /\ phase # "idle"
  /\ \A i \in 1..Len(Listings) :
       Listings[i].status \notin {"requested", "thrown"}

FirstFailure ==
  IF ValidationError(data) # NoError THEN ValidationError(data)
  ELSE IF failures # <<>> THEN failures[1]
  ELSE NoError

\* C7: when a concurrent listing run has called back, it has done so once,
\* with no error if nothing failed and with the error of the first failure
\* otherwise.
C7_OneOfTwoOutcomes ==
  (Concurrent /\ callbacks # <<>>) => callbacks = <<FirstFailure>>

\* Two page listings failed; the callback carries the error of the first.
C7_Witness ==
  /\ Concurrent
  /\ Len(failures) = 2
  /\ failures[1] # failures[2]
  /\ callbacks = <<failures[1]>>

\* A listing that has failed stays as it is: it issues no further request.
Stopped ==
  \A i \in 1..Len(Listings) :
    Listings[i].status = "failed" => Listings'[i] = Listings[i]

\* What has been pushed stays pushed, in place.
NothingRetracted ==
  /\ Len(pushed) <= Len(pushed')
  /\ SubSeq(pushed', 1, Len(pushed)) = pushed

\* C8, as stated: a page listing that fails stops, the callback of the run
\* receives its error, and nothing pushed before is retracted.
C8_EveryFailureReported ==
  [][ /\ Stopped
      /\ NothingRetracted
      /\ \A i \in 1..Len(Listings') :
           Listings'[i].status = "failed" =>
             ErrorOf(Listings'[i]) \in Range(callbacks') ]_vars

\* C8, amended: a page listing that fails stops and nothing pushed before is
\* retracted; the callback of the run receives the error when it is the
\* first failure of the run, and is not called for a later one.
C8_FirstFailureReported ==
  [][ /\ Stopped
      /\ NothingRetracted
      /\ failures' # failures =>
           IF failures = <<>>
           THEN callbacks' = <<failures'[1]>>
           ELSE callbacks' = callbacks ]_vars

\* A listing failed on a later page, after it had pushed objects.
C8_Witness ==
  \E i \in 1..Len(Listings) :
    /\ Listings[i].status = "failed"
    /\ Listings[i].pages > 0
    /\ pushed # <<>>
    /\ callbacks = <<ErrorOf(Listings[i])>>

\* C9: a page listing makes at most retryTimes attempts.  An answered
\* request that failed is followed by the next attempt for the same page
\* when fewer than retryTimes were made, and by one error otherwise; one that
\* succeeded ends the attempts: its page is pushed and the listing moves on
\* to the next page or ends.
C9_AtMostThreeAttempts ==
  [][ \A i \in 1..Len(Listings) :
        (Listings[i].status = "requested" /\ Listings'[i] # Listings[i]) =>
          LET l == Listings[i]
              m == Listings'[i]
              response == S3ListObjects(contents, PageParams(options, l))
          IN  /\ l.attempt \in 1..retryTimes
              /\ IF failedAttempts' # failedAttempts
                 THEN /\ pushed' = pushed
                      /\ IF l.attempt < retryTimes
                         THEN /\ m = [l EXCEPT !.attempt = @ + 1]
                              /\ failures' = failures
                         ELSE /\ m = [l EXCEPT !.status = "failed"]
                              /\ failures' = Append(failures, ErrorOf(l))
                 ELSE /\ failures' = failures
                      /\ \/ m.status = "thrown"
                         \/ /\ m.pages = l.pages + 1
                            /\ pushed' = PushAll(pushed, response.Contents,
                                                 options.bucket)
                            /\ \/ m.status = "done"
                               \/ m.status = "requested" /\ m.attempt = 1
    ]_vars

\* Three attempts failed in a row and the listing reported one error.
C9_Witness ==
  /\ failedAttempts = retryTimes
  /\ Len(failures) = 1
  /\ \E i \in 1..Len(Listings) :
       Listings[i].status = "failed" /\ Listings[i].attempt = retryTimes

\* The common prefixes S3 reports for the prefix of the run, in order.
ReportedCommonPrefixes ==
  LET names == { ListedName(k, options.prefix, options.delimiter) :
                   k \in {x \in contents : StartsWith(x, options.prefix)} }
  IN  SortedSeq({ n \in names :
                    IsCommonPrefix(n, options.prefix, options.delimiter) })

RECURSIVE PagesPushed(_, _, _, _)
PagesPushed(o, l, n, byNextMarker) ==
  IF n = 0 THEN <<>>
  ELSE LET response == S3ListObjects(contents, PageParams(o, l))
           next == IF byNextMarker
                   THEN listCommonPrefixesPage(response).nextMarker
                   ELSE listObjectsPage(response).nextMarker
       IN  response.Contents \o
           PagesPushed(o, [l EXCEPT !.marker = next], n - 1, byNextMarker)

\* Whether a pushed key comes from listing i of Listings: a task lists the
\* keys under its common prefix, the top-level listing the others.
Owns(i, key) ==
  IF i = 1
  THEN \A j \in 1..Len(tasks) : ~StartsWith(key, tasks[j].prefix)
  ELSE StartsWith(key, tasks[i - 1].prefix)

\* The keys listing i has pushed, in the order they were pushed.
OwnKeys(i) ==
  LET own == SelectSeq(pushed, LAMBDA e : Owns(i, e.Key))
  IN  [k \in 1..Len(own) |-> own[k].Key]

\* C11: what each listing has pushed is, in this order, the entries of its
\* first page in the order of the page, then those of its second page, and
\* so on for the pages it has received; entries of different listings may
\* interleave.
C11_PageOrder ==
  \A i \in 1..Len(Listings) :
    OwnKeys(i) = PagesPushed(options, [Listings[i] EXCEPT !.marker = Undefined],
                             Listings[i].pages, Concurrent /\ i = 1)

\* A task has pushed two pages and another listing pushed in between.
C11_Witness ==
  /\ Concurrent
  /\ Len(pushed) >= 3
  /\ \E i \in 2..Len(Listings) :
       /\ Listings[i].pages = 2
       /\ Owns(i, pushed[1].Key)
       /\ ~Owns(i, pushed[2].Key)
       /\ Owns(i, pushed[3].Key)

\* The root path of an object and its first min(depth, segmentCount)
\* ancestor directories, segmentCount being the number of segments of the key
\* that are followed by a delimiter: the k-th ancestor is the bucket, the
\* delimiter, and the key up to its k-th delimiter.
AncestorPaths(s3Object, depth, delimiter) ==
  LET key == s3Object.Key
      at == {i \in 1..Len(key) : key[i] = delimiter}
      segmentCount == Cardinality(at)
      levels == IF depth < segmentCount THEN depth ELSE segmentCount
      kth(k) == CHOOSE i \in at : Cardinality({j \in at : j <= i}) = k
  IN  {s3Object.Bucket} \cup
      { s3Object.Bucket \o <<delimiter>> \o SubSeq(key, 1, kth(k) - 1) :
          k \in 1..levels }

\* The paths whose node is created or changed by a step.
UpdatedPaths ==
  {p \in DOMAIN totals' : p \notin DOMAIN totals \/ totals'[p] # totals[p]}

\* C12: a step that observes one entry of valid shape and known storage
\* class updates the nodes of exactly the root path (the bucket) and the
\* first min(depth, segmentCount) ancestor directories of the key.
C12_PathsUpdated ==
  [][ ( /\ Len(transformed') = Len(transformed) + 1
        /\ Accepted(transformed'[Len(transformed')]) )
      => UpdatedPaths = AncestorPaths(transformed'[Len(transformed')],
                                      usage.depth, usage.delimiter) ]_vars

\* A sequence of paths in strictly ascending order: no path twice.
StrictlyAscending(paths) ==
  \A i \in 1..Len(paths) : \A j \in 1..Len(paths) :
    i < j => LexLess(paths[i], paths[j])

\* C13: in every state, and so after every observation, the sorted totals
\* are in strictly ascending order of path, and so is every snapshot that was
\* emitted.
C13_SortedByPath ==
  /\ StrictlyAscending(sortedTotals)
  /\ \A k \in 1..Len(emitted) :
       StrictlyAscending([i \in 1..Len(emitted[k]) |-> emitted[k][i].path])

\* The object b/a was observed first and a/b/a later: the path of folder a
\* was inserted before that of folder b, and a snapshot was emitted.
C13_Witness ==
  /\ Len(sortedTotals) = 4
  /\ transformed[1].Key = <<3, Slash, 2>>
  /\ emitted # <<>>
  /\ Len(emitted[Len(emitted)]) = 4

\* C14: in every step every node that exists goes on existing, in the map
\* and in the sorted list, and for every storage class its count and its
\* size do not decrease.
C14_Monotonic ==
  [][ /\ \A p \in DOMAIN totals :
           /\ p \in DOMAIN totals'
           /\ \A c \in storageClass :
                /\ totals'[p].storageClass[c].count
                     >= totals[p].storageClass[c].count
                /\ totals'[p].storageClass[c].size
                     >= totals[p].storageClass[c].size
      /\ Range(sortedTotals) \subseteq Range(sortedTotals') ]_vars

\* A node that has counted two objects of one storage class and then one of
\* another.
C14_Witness ==
  \E p \in DOMAIN totals :
    /\ totals[p].storageClass["STANDARD"].count = 2
    /\ totals[p].storageClass["GLACIER"].count = 1
    /\ transformed[Len(transformed)].StorageClass = "GLACIER"

\* An object that updateTotals counts: it is accepted and adding it does not
\* throw.
Counted(chunk) == Accepted(chunk) /\ chunk.Bucket \notin ObjectPrototype

\* The sum of the sizes of the chunks at the given positions.
RECURSIVE SumOfSizes(_, _)
SumOfSizes(chunks, positions) ==
  IF positions = {} THEN 0
  ELSE LET k == CHOOSE x \in positions : TRUE
       IN  chunks[k].Size + SumOfSizes(chunks, positions \ {k})

\* The usage of a sequence of chunks, by counting: for every path derived
\* from a counted chunk, in ascending order, and every storage class, the
\* number of counted chunks of that class under the path and the sum of
\* their sizes.
UsageOf(chunks) ==
  LET under(p, c) ==
        { k \in 1..Len(chunks) :
            /\ Counted(chunks[k])
            /\ chunks[k].StorageClass = c
            /\ p \in AncestorPaths(chunks[k], usage.depth, usage.delimiter) }
      paths == UNION { AncestorPaths(chunks[k], usage.depth, usage.delimiter) :
                         k \in {x \in 1..Len(chunks) : Counted(chunks[x])} }
      sorted == SortedSeq(paths)
  IN  [ i \in 1..Len(sorted) |->
          [ path |-> sorted[i],
            storageClass |->
              [ c \in storageClass |->
                  [ count |-> Cardinality(under(sorted[i], c)),
                    size |-> SumOfSizes(chunks, under(sorted[i], c)) ] ] ] ]

\* The objects a/b/1 (10, STANDARD), a/b/2 (20, STANDARD) and a/b/3 (30,
\* GLACIER) of the example, in this order.
ExampleObjects ==
  << S3Object(<<2, Slash, 3, Slash, 2>>, 10, "STANDARD"),
     S3Object(<<2, Slash, 3, Slash, 3>>, 20, "STANDARD"),
     S3Object(<<2, Slash, 3, Slash, 4>>, 30, "GLACIER") >>

\* The node of the example's third snapshot for a path.
ExampleNode(path) ==
  [ path |-> path,
    storageClass |->
      [ c \in storageClass |->
          IF c = "STANDARD" THEN [count |-> 2, size |-> 30]
          ELSE IF c = "GLACIER" THEN [count |-> 1, size |-> 30]
          ELSE [count |-> 0, size |-> 0] ] ]

\* C15: with outputFactor 1 every step that counts an object emits, last, a
\* snapshot that holds for every path derived from the objects counted so
\* far and every storage class their number and the sum of their sizes; and
\* after the three objects of the example, with depth 2, the third snapshot
\* has the nodes bucket, bucket/a and bucket/a/b, each with STANDARD 2 / 30
\* and GLACIER 1 / 30.
C15_SnapshotHoldsUsage ==
  [][ /\ (usage.outputFactor = 1 /\ count' = count + 1) =>
           /\ Len(emitted') > Len(emitted)
           /\ emitted'[Len(emitted')] = UsageOf(transformed')
      /\ ( /\ usage.outputFactor = 1
           /\ usage.depth = 2
           /\ transformed' = ExampleObjects
           /\ ~ending' ) =>
           emitted'[3] = << ExampleNode(BucketName),
                            ExampleNode(BucketName \o <<Slash, 2>>),
                            ExampleNode(BucketName \o <<Slash, 2, Slash, 3>>) >>
    ]_vars

\* The three objects of the example have been observed with depth 2 and
\* outputFactor 1, and three snapshots emitted.
C15_Witness ==
  /\ usage.outputFactor = 1
  /\ usage.depth = 2
  /\ transformed = ExampleObjects
  /\ ~ending
  /\ Len(emitted) = 3

\* C16: when a page request is answered with a response, the listing goes on
\* with a marker if the response is truncated, whatever the page holds, and
\* ends if it is not.
C16_CursorIffTruncated ==
  [][ \A i \in 1..Len(Listings) :
        ( /\ Listings[i].status = "requested"
          /\ Listings'[i] # Listings[i]
          /\ failedAttempts' = failedAttempts ) =>
          LET l == Listings[i]
              m == Listings'[i]
              response == S3ListObjects(contents, PageParams(options, l))
          IN  IF response.IsTruncated
              THEN /\ m.status = "requested"
                   /\ m.marker # Undefined
                   /\ m.pages = l.pages + 1
              ELSE m.status = "done"
    ]_vars

\* C17: once a task has failed, the tasks in flight are not cancelled: the
\* failure leaves them as they are, and each goes on answering its own
\* requests as it would have otherwise, pushing the pages it is returned,
\* also after the run's callback has been called with the error.
C17_SiblingsNotCancelled ==
  [][ errored' =>
        \A i \in 1..Len(tasks) :
          (tasks[i].status = "requested" /\ tasks'[i] # tasks[i]) =>
            LET r == listRecusively(options, tasks[i],
                                    failedAttempts' = failedAttempts)
            IN  /\ tasks'[i] = r.l
                /\ pushed' = PushAll(pushed, r.s3Objects, options.bucket)
                /\ \A j \in 1..Len(tasks) : j # i => tasks'[j] = tasks[j]
    ]_vars

\* A task listed to its end and pushed objects after the run's callback had
\* been called with the error of another task.
C17_Witness ==
  /\ Concurrent
  /\ errored
  /\ callbacks # <<>>
  /\ callbacks[1] # NoError
  /\ Len(pushed) > pushedWhenCalledBack
  /\ \E i \in 1..Len(tasks) : tasks[i].status = "failed"
  /\ \A i \in 1..Len(tasks) : tasks[i].status \in {"failed", "done"}
  /\ \E i \in 1..Len(tasks) : tasks[i].status = "done" /\ tasks[i].pages >= 1

\* C18: every entry pushed by a sequential or a concurrent listing carries, as
\* its Bucket, the bucket of the configuration object that was written, and
\* its key is a key of that bucket.
C18_BucketAttached ==
  \A i \in 1..Len(pushed) :
    /\ pushed[i].Bucket = data.bucket
    /\ pushed[i].Bucket # Undefined
    /\ pushed[i].Key \in contents

\* A concurrent listing pushed two objects of one page of a task and an
\* object of the root level.
C18_Witness ==
  /\ Concurrent
  /\ options.maxKeys >= 2
  /\ Len(pushed) = MaxObjects
  /\ \E i \in 1..Len(tasks) : tasks[i].status = "done" /\ tasks[i].pages = 1
  /\ \E i \in 1..Len(pushed) :
       \A k \in 1..Len(pushed[i].Key) : pushed[i].Key[k] # Slash
  /\ Cardinality({i \in 1..Len(pushed) :
                    \E k \in 1..Len(pushed[i].Key) : pushed[i].Key[k] = Slash})
       = 2

\* C19: a run whose configuration is not an object, or has no s3Client, or
\* has no bucket, calls back once with an error as soon as it starts, issues no
\* request and pushes nothing.
C19_InvalidConfigurationRejected ==
  (~data.isObject \/ ~data.s3Client \/ data.bucket = Undefined) =>
    /\ pushed = <<>>
    /\ listing = NoListing
    /\ tasks = <<>>
    /\ commonPrefixes = <<>>
    /\ running = 0
    /\ failedAttempts = 0
    /\ \/ phase = "idle" /\ callbacks = <<>>
       \/ /\ phase = "called back"
          /\ Len(callbacks) = 1
          /\ callbacks[1] # NoError

\* A concurrent listing was written a configuration object without a bucket
\* and has called back.
C19_Witness ==
  /\ Concurrent
  /\ data.isObject
  /\ data.s3Client
  /\ data.bucket = Undefined
  /\ phase = "called back"
  /\ callbacks = << {"Missing options.bucket"} >>

\* An entry that is null or lacks a string bucket, a string key or a numeric
\* size.
Malformed(chunk) ==
  \/ chunk.isNull
  \/ chunk.typeofBucket # "string"
  \/ chunk.typeofKey # "string"
  \/ chunk.typeofSize # "number"

\* C20: a step that hands _transform an entry that is null or lacks a string
\* bucket, a string key or a numeric size yields an error and leaves the
\* totals, their sorted list and the count as they were, and emits no
\* snapshot (other than that of end(), when the entry is the chunk handed to
\* end()).
C20_MalformedEntryRejected ==
  [][ ( /\ Len(transformed') = Len(transformed) + 1
        /\ Malformed(transformed'[Len(transformed')]) )
      => /\ errors' = errors + 1
         /\ threw' = threw
         /\ <<totals, sortedTotals, count>>' = <<totals, sortedTotals, count>>
         /\ emitted' = IF ending' = ending THEN emitted
                       ELSE Append(emitted, cloneDeep(Stream)) ]_vars

\* An object without a size was the last entry handed to _transform, after
\* null and an object that was counted; each of the two yielded an error.
C20_Witness ==
  /\ Len(transformed) = 3
  /\ transformed[1].typeofSize = "number"
  /\ transformed[2].isNull
  /\ ~transformed[3].isNull
  /\ transformed[3].typeofBucket = "string"
  /\ transformed[3].typeofKey = "string"
  /\ transformed[3].typeofSize # "number"
  /\ count = 1
  /\ errors = 2

\* C21: when the configuration object sets no maxConcurrency, the run lists
\* with a ceiling of 15 tasks at a time.
C21_DefaultCeilingFifteen ==
  ( /\ Concurrent
    /\ data.maxConcurrency = Unset
    /\ ValidationError(data) = NoError
    /\ phase # "idle" ) =>
    /\ options.maxConcurrency = 15
    /\ running <= 15

\* The folder segments of a key: one per delimiter in it.
FolderCount(key, delimiter) ==
  Cardinality({i \in 1..Len(key) : key[i] = delimiter})

\* C22: of an entry that updateTotals takes, the first path derived is the
\* root; at depth 0 it is the only one; at a depth that the key has fewer
\* folder segments than, one path is derived for the root and one for each
\* segment there is; and never more paths than that, nor more than the depth
\* allows.
C22_DepthBoundary ==
  [][ ( /\ Len(transformed') = Len(transformed) + 1
        /\ Accepted(transformed'[Len(transformed')]) )
      => LET s3Object == transformed'[Len(transformed')]
             folders == FolderCount(s3Object.Key, usage.delimiter)
             derived == Len(derivedPaths')
         IN  /\ derived >= 1
             /\ derivedPaths'[1] = s3Object.Bucket
             /\ usage.depth = 0 => derivedPaths' = <<s3Object.Bucket>>
             /\ folders < usage.depth => derived = 1 + folders
             /\ derived <= 1 + folders
             /\ derived <= 1 + usage.depth ]_vars

\* At depth 2 the object b/a, which has one folder, was the last one taken:
\* the root and the folder were derived.
C22_Witness ==
  /\ usage.depth = 2
  /\ transformed # <<>>
  /\ Accepted(transformed[Len(transformed)])
  /\ transformed[Len(transformed)].Key = <<3, Slash, 2>>
  /\ transformed[Len(transformed)].Bucket = BucketName
  /\ derivedPaths = << BucketName, BucketName \o <<Slash, 3>> >>

\* The keys under the prefix of the run hold no delimiter after it: the root
\* listing reports no common prefix.
Flat ==
  \A key \in contents :
    StartsWith(key, data.prefix) => ListedName(key, data.prefix, Slash) = key

\* C23: a concurrent listing of a flat namespace never has a task and never
\* more than one request in flight; it goes from page request to page
\* request until it calls back, and unless a page request failed three times
\* it calls back without an error, having pushed every object under the
\* prefix once, in the order of the keys.
C23_FlatIsSingleThreaded ==
  (Concurrent /\ ValidationError(data) = NoError /\ Flat) =>
    /\ tasks = <<>>
    /\ running = 0
    /\ commonPrefixes = <<>>
    /\ Cardinality({i \in 1..Len(Listings) :
                      Listings[i].status = "requested"}) <= 1
    /\ phase \in {"idle", "listCommonPrefixes", "called back"}
    /\ phase = "listCommonPrefixes" => listing.status = "requested"
    /\ phase = "called back" =>
         IF failures = <<>>
         THEN /\ callbacks = <<NoError>>
              /\ listing.status = "done"
              /\ pushed = PushAll(<<>>,
                                  SortedSeq({key \in contents :
                                               StartsWith(key, data.prefix)}),
                                  data.bucket)
         ELSE /\ callbacks = <<ErrorOf(listing)>>
              /\ listing.status = "failed"

\* A concurrent listing of the flat bucket {a, b} with pages of one key has
\* called back without an error after two pages, one attempt having failed.
C23_Witness ==
  /\ Concurrent
  /\ contents = {<<2>>, <<3>>}
  /\ data.prefix = Undefined
  /\ options.maxKeys = 1
  /\ phase = "called back"
  /\ callbacks = <<NoError>>
  /\ failedAttempts = 1
  /\ Len(pushed) = 2

\* What a paged listing pushes and how it ends when no request fails.
RECURSIVE FailureFree(_, _)
FailureFree(o, l) ==
  LET step == listRecusively(o, l, TRUE)
  IN  IF step.l.status = "requested"
      THEN LET rest == FailureFree(o, step.l)
           IN  [ keys |-> step.s3Objects \o rest.keys,
                 status |-> rest.status ]
      ELSE [ keys |-> step.s3Objects, status |-> step.l.status ]

\* What listCommonPrefixes pushes and collects when no request fails.
RECURSIVE FailureFreeCommonPrefixes(_, _)
FailureFreeCommonPrefixes(o, l) ==
  LET page == listCommonPrefixesPage(
                S3ListObjects(contents, PageParams(o, l)))
  IN  IF page.nextMarker # Undefined
      THEN LET rest == FailureFreeCommonPrefixes(
                         o, [l EXCEPT !.marker = page.nextMarker])
           IN  [ keys |-> page.s3Objects \o rest.keys,
                 commonPrefixes |-> page.commonPrefixesPage
                                      \o rest.commonPrefixes ]
      ELSE [ keys |-> page.s3Objects,
             commonPrefixes |-> page.commonPrefixesPage ]

\* The listings of the run as they are when a run without failed requests
\* has come to rest: the keys each has pushed and its status.  A task whose
\* handler threw keeps its place under the limit, so that a task with
\* maxConcurrency such tasks before it is never started.
FailureFreeRun ==
  IF ~Concurrent
  THEN << FailureFree(options, FirstRequest(options.prefix)) >>
  ELSE LET root == FailureFreeCommonPrefixes(options,
                                             FirstRequest(options.prefix))
           task == [ i \in 1..Len(root.commonPrefixes) |->
                       FailureFree(options,
                                   FirstRequest(root.commonPrefixes[i])) ]
           thrownBefore(i) ==
             Cardinality({j \in 1..(i - 1) : task[j].status = "thrown"})
       IN  << [keys |-> root.keys, status |-> "done"] >> \o
           [ i \in 1..Len(task) |->
               IF thrownBefore(i) >= options.maxConcurrency
               THEN [keys |-> <<>>, status |-> "waiting"]
               ELSE task[i] ]

\* The run has come to rest: no request is out.
AtRest ==
  /\ phase # "idle"
  /\ ValidationError(data) = NoError
  /\ \A i \in 1..Len(Listings) : Listings[i].status # "requested"

\* What the run has pushed for each prefix, in order, how each listing has
\* ended and what the run has called back with are what they are in a run
\* without failed requests.
AsWithoutFailures ==
  LET run == FailureFreeRun
  IN  /\ Len(Listings) = Len(run)
      /\ \A i \in 1..Len(Listings) :
           /\ i > 1 => Listings[i].prefix = commonPrefixes[i - 1]
           /\ Listings[i].status = run[i].status
           /\ OwnKeys(i) = run[i].keys
      /\ callbacks =
           IF \A i \in 1..Len(Listings) : Listings[i].status = "done"
           THEN <<NoError>> ELSE <<>>

\* C24: when no page request has failed three times and the run has come to
\* rest, what it has pushed for each prefix, in order, how each listing has
\* ended and what the run has called back with are what they are in a run
\* without failed requests, however many attempts have failed.
C24_RetriesInvisible ==
  (AtRest /\ failures = <<>>) => AsWithoutFailures

\* A concurrent listing with pages of one key has come to rest without an
\* error after two attempts of its root listing and two of one task had
\* failed; that task listed two pages.
C24_Witness ==
  /\ Concurrent
  /\ AtRest
  /\ failures = <<>>
  /\ failedAttempts = 4
  /\ callbacks = <<NoError>>
  /\ options.maxKeys = 1
  /\ \E i \in 1..Len(tasks) : tasks[i].pages = 2
  /\ Len(pushed) = MaxObjects

\* The sub-prefixes S3 reports to a listing of a prefix with the delimiter
\* of the run.
SubPrefixes(prefix) ==
  { name \in { ListedName(key, prefix, options.delimiter) :
                 key \in {x \in contents : StartsWith(x, prefix)} } :
      IsCommonPrefix(name, prefix, options.delimiter) }

\* C25: when a concurrent listing has called back without an error, every
\* sub-prefix that was reported to one of its tasks has a task of its own.
C25_RecursiveDescent ==
  (Concurrent /\ callbacks = <<NoError>>) =>
    \A i \in 1..Len(tasks) :
      \A subPrefix \in SubPrefixes(tasks[i].prefix) :
        \E j \in 1..Len(tasks) : tasks[j].prefix = subPrefix

\* What a consumer reads in a snapshot it was pushed: an element that is a
\* node object of the stream reads as that node is now.
SnapshotContents(snapshot, nodes) ==
  [ i \in 1..Len(snapshot) |->
      IF "ref" \in DOMAIN snapshot[i] THEN nodes[snapshot[i].ref]
      ELSE snapshot[i] ]

\* C26: no step removes a snapshot that was emitted or changes what one
\* holds: its paths, counts and sizes stay as they were when it was emitted.
C26_SnapshotsAreCopies ==
  [][ /\ Len(emitted') >= Len(emitted)
      /\ \A k \in 1..Len(emitted) :
           SnapshotContents(emitted'[k], totals')
             = SnapshotContents(emitted[k], totals) ]_vars

\* Two objects were counted after the first snapshot was emitted: the
\* snapshot holds one node with one object, the stream three nodes and a bucket
\* node with three objects.
C26_Witness ==
  /\ usage.depth = 2
  /\ count = 3
  /\ Len(emitted) >= 1
  /\ Len(emitted[1]) = 1
  /\ emitted[1][1].path = BucketName
  /\ emitted[1][1].storageClass["STANDARD"].count = 1
  /\ Len(sortedTotals) = 3
  /\ totals[BucketName].storageClass["STANDARD"].count = 3

\* C27: the paths derived from an entry that updateTotals takes are given by
\* the entry, the depth and the delimiter alone: the root and the ancestor
\* directories of the key, each before the ones below it, whatever has been
\* counted before; so the same entry observed again yields the same list.
C27_PathsDependOnEntryOnly ==
  [][ ( /\ Len(transformed') = Len(transformed) + 1
        /\ Accepted(transformed'[Len(transformed')]) )
      => derivedPaths' = SortedSeq(AncestorPaths(transformed'[Len(transformed')],
                                                 usage.depth, usage.delimiter))
    ]_vars

\* The object a/b/a was observed, then another object, then a/b/a again, at
\* depth 2: the same three paths were derived as the first time.
C27_Witness ==
  /\ usage.depth = 2
  /\ Len(transformed) = 3
  /\ transformed[1].Key = <<2, Slash, 3, Slash, 2>>
  /\ transformed[3] = transformed[1]
  /\ transformed[2] # transformed[1]
  /\ Accepted(transformed[2])
  /\ count = 3
  /\ derivedPaths = << BucketName, BucketName \o <<Slash, 2>>,
                       BucketName \o <<Slash, 2, Slash, 3>> >>

\* C28: once end() has been called and the final snapshot emitted, the
\* stream stays ended, no observation changes the totals, their sorted list
\* or the count, and no further snapshot is emitted.
C28_NothingAfterFinalSnapshot ==
  [][ ending =>
        /\ ending'
        /\ <<totals, sortedTotals, count>>' = <<totals, sortedTotals, count>>
        /\ emitted' = emitted ]_vars

\* C29: the first request of a listing has no marker; a request that follows
\* a failed attempt is the same request again; a request that follows a page
\* has as its marker what that page gave: the NextMarker of the response for
\* listCommonPrefixes, the last key of its Contents for every other listing;
\* and bucket, prefix, delimiter and maxKeys are those of the request before.
C29_CursorChain ==
  [][ \A i \in 1..Len(Listings') :
        LET m == Listings'[i]
            first == i > Len(Listings) \/ Listings[i].status # "requested"
        IN  m.status = "requested" =>
              IF first
              THEN PageParams(options', m).Marker = Undefined
              ELSE LET l == Listings[i]
                       response == S3ListObjects(contents,
                                                 PageParams(options, l))
                       cursor == IF Concurrent /\ i = 1
                                 THEN response.NextMarker
                                 ELSE response.Contents[Len(response.Contents)]
                   IN  IF m = l \/ failedAttempts' # failedAttempts
                       THEN PageParams(options', m) = PageParams(options, l)
                       ELSE PageParams(options', m) =
                              [PageParams(options, l) EXCEPT !.Marker = cursor]
    ]_vars

\* A sequential listing with pages of two keys has requested its second
\* page with the second key of the first page as the marker.
C29_Witness ==
  /\ ~Concurrent
  /\ options.maxKeys = 2
  /\ listing.status = "requested"
  /\ listing.pages = 1
  /\ Len(pushed) = 2
  /\ listing.marker = pushed[2].Key
  /\ failedAttempts = 0

C31_StreamedNotBuffered ==
  [][ \A i \in 1..Len(Listings) :
        LET l == Listings[i]
            m == Listings'[i]
            response == S3ListObjects(contents, PageParams(options, l))
        IN  ( /\ l.status = "requested"
              /\ m.marker # l.marker \/ m.status = "done" ) =>
              /\ Len(pushed') = Len(pushed) + Len(response.Contents)
              /\ \A k \in 1..Len(response.Contents) :
                   pushed'[Len(pushed) + k].Key = response.Contents[k]
    ]_vars

\* The request for the second page of a listing is out and the entries of
\* its first page are downstream; there is more than one of them.
C31_Witness ==
  \E i \in 1..Len(Listings) :
    /\ Listings[i].status = "requested"
    /\ Listings[i].pages = 1
    /\ Listings[i].attempt = 1
    /\ Len(OwnKeys(i)) = 2
    /\ callbacks = <<>>

Observed ==
  UNION { { <<path, transformed[k].StorageClass>> :
              path \in Range(Paths(transformed[k], usage.depth,
                                   usage.delimiter)) } :
            k \in {x \in 1..Len(transformed) : Counted(transformed[x])} }

\* A node has an entry for each storage class of constants.storageClass and
\* for no other, with count 0 and size 0 for each class that is not among
\* the observed ones for its path.
EveryTier(node, observed) ==
  /\ DOMAIN node.storageClass = storageClass
  /\ \A c \in storageClass :
       <<node.path, c>> \notin observed =>
         node.storageClass[c] = [count |-> 0, size |-> 0]

\* C33: every node of the running totals, and every node of every snapshot
\* that was pushed, has an entry for each of the four storage classes, with
\* count 0 and size 0 for every class not observed under its path.
C33_EveryTierPresent ==
  LET observed == Observed
      nodes == {totals[p] : p \in DOMAIN totals}
               \cup UNION {Range(emitted[s]) : s \in 1..Len(emitted)}
  IN  \A node \in nodes : EveryTier(node, observed)

\* A snapshot holds a node under which GLACIER and STANDARD objects were
\* counted, and none of the two other classes.
C33_Witness ==
  \E s \in 1..Len(emitted) : \E n \in 1..Len(emitted[s]) :
    /\ emitted[s][n].storageClass["GLACIER"].count = 1
    /\ emitted[s][n].storageClass["STANDARD"].count > 0
    /\ emitted[s][n].storageClass["STANDARD_IA"].count = 0
    /\ emitted[s][n].storageClass["REDUCED_REDUNDANCY"].size = 0

\* C34: in a concurrent listing run in which no request has failed, no
\* object is pushed more than once: not by the top-level listing and a task,
\* not by two tasks, not by two pages.
C34_NoEntryTwice ==
  (Concurrent /\ failedAttempts = 0) =>
    \A i \in 1..Len(pushed) : \A j \in 1..Len(pushed) :
      pushed[i].Key = pushed[j].Key => i = j

\* No request failed and the run has called back; the top-level listing and
\* two tasks have each pushed an object.
C34_Witness ==
  /\ Concurrent
  /\ failedAttempts = 0
  /\ callbacks = <<NoError>>
  /\ Len(tasks) = 2
  /\ \A i \in 1..3 : OwnKeys(i) # <<>>

\* The positions of the objects of storage class c that passed _transform
\* with a known storage class and have the path among their derived paths.
EntriesUnder(path, c) ==
  { k \in 1..Len(transformed) :
      /\ Accepted(transformed[k])
      /\ transformed[k].StorageClass = c
      /\ path \in Range(Paths(transformed[k], usage.depth, usage.delimiter)) }

\* For every node and storage class, the count is the number of those
\* objects and the size the sum of their sizes.
NodesConserve ==
  \A p \in DOMAIN totals : \A c \in storageClass :
    /\ totals[p].storageClass[c].count = Cardinality(EntriesUnder(p, c))
    /\ totals[p].storageClass[c].size =
         SumOfSizes(transformed, EntriesUnder(p, c))

\* The root node of a bucket counts every such object of the bucket.
RootCountsEveryEntry ==
  \A k \in 1..Len(transformed) :
    Accepted(transformed[k]) =>
      /\ transformed[k].Bucket \in DOMAIN totals
      /\ k \in EntriesUnder(transformed[k].Bucket,
                            transformed[k].StorageClass)

\* No node exceeds a node above it, in any storage class.
NoNodeExceedsParent ==
  \A p \in DOMAIN totals : \A q \in DOMAIN totals :
    StartsWith(p, q \o <<usage.delimiter>>) =>
      \A c \in storageClass :
        /\ totals[p].storageClass[c].count <= totals[q].storageClass[c].count
        /\ totals[p].storageClass[c].size <= totals[q].storageClass[c].size

\* C35: conservation of the aggregate.  After any sequence of observations,
\* for every node and storage class the count is the number of accepted
\* objects of that class whose derived paths contain the path of the node,
\* and the size the sum of their sizes; the root node of a bucket counts
\* every accepted object of the bucket, and no node exceeds its parent.
C35_Conservation ==
  /\ NodesConserve
  /\ RootCountsEveryEntry
  /\ NoNodeExceedsParent

\* C36: this.totals and this.sortedTotals hold the same nodes: every path
\* stored in totals is once in sortedTotals and sortedTotals holds no other;
\* and what was added through totals is what sortedTotals yields: a snapshot
\* pushed by the observation that was counted last holds the nodes as they
\* are in totals.
C36_MapAndListAgree ==
  /\ Range(sortedTotals) = DOMAIN totals
  /\ \A i \in 1..Len(sortedTotals) : \A j \in 1..Len(sortedTotals) :
       sortedTotals[i] = sortedTotals[j] => i = j
  /\ \A p \in DOMAIN totals : totals[p].path = p
  /\ (count > 0 /\ count % usage.outputFactor = 0 /\ ~ending) =>
       /\ emitted # <<>>
       /\ Len(emitted[Len(emitted)]) = Len(sortedTotals)
       /\ \A i \in 1..Len(sortedTotals) :
            emitted[Len(emitted)][i] = totals[sortedTotals[i]]

\* Three nodes are held, and the node of the bucket was updated after it
\* had been inserted; the snapshot pushed last shows the update.
C36_Witness ==
  /\ Len(sortedTotals) = 3
  /\ count = 2
  /\ usage.outputFactor = 2
  /\ ~ending
  /\ emitted[Len(emitted)][1].storageClass["STANDARD"].count = 2

\* C37: a concurrent listing run has two phases.  A task has been created,
\* and so started, only when the top-level listing has processed its last
\* page; when the top-level listing has failed the run has called back and
\* there is no task, then and ever after.
C37_TwoPhases ==
  Concurrent =>
    /\ tasks # <<>> => listing.status = "done"
    /\ listing.status = "failed" =>
         /\ tasks = <<>>
         /\ running = 0
         /\ phase = "called back"

\* The top-level listing failed on its second page, after its first page
\* had reported a common prefix: no task was started.
C37_Witness ==
  /\ Concurrent
  /\ listing.status = "failed"
  /\ listing.pages = 1
  /\ commonPrefixes # <<>>
  /\ callbacks = <<ErrorOf(listing)>>

\* C38: once the callback of a concurrent listing run has been called with
\* an error, no task that had not started is started: neither by the step
\* that calls back with the error nor by any later step, whatever the tasks
\* in flight do.
C38_NoStartAfterError ==
  [][ ( /\ Concurrent
        /\ callbacks' # <<>>
        /\ callbacks'[1] # NoError ) =>
        /\ Len(tasks') = Len(tasks)
        /\ \A i \in 1..Len(tasks) :
             tasks[i].started = 0 =>
               tasks'[i].started = 0 /\ tasks'[i].status = "waiting"
    ]_vars

\* With a ceiling of two, the first of three tasks failed and the run called
\* back with its error; the second task went on to its end afterwards, and
\* the third was not started.
C38_Witness ==
  /\ Concurrent
  /\ options.maxConcurrency = 2
  /\ Len(tasks) = 3
  /\ tasks[1].status = "failed"
  /\ tasks[2].status = "done"
  /\ tasks[3].status = "waiting"
  /\ callbacks = <<ErrorOf(tasks[1])>>

\* The run has called back once, with no error, and every listing of it has
\* come to its end.
Terminated ==
  /\ callbacks = <<NoError>>
  /\ \A i \in 1..Len(Listings) : Listings[i].status = "done"

\* C39: a listing run with a valid configuration in which no page listing
\* runs out of attempts, and in which every request is answered, calls back
\* in the end with no error, after every task has finished.
C39_Termination ==
  (ValidationError(data) = NoError /\ [](failures = <<>>)) => <>Terminated

====
